---- MODULE Spec2Model ----
(***************************************************************************)
(* Insightful-Orders: the alert-rule batch evaluator evaluate_rules         *)
(* (app/services/alerts.py), the scheduler that create_app starts           *)
(* (app/__init__.py), the per-metric evaluator evaluate_alerts_for_metric,  *)
(* the analytics functions rolling_aov, rfm_scores and monthly_cohorts      *)
(* (app/services/analytics.py) with their helpers (app/utils/helpers.py),   *)
(* the endpoint GET /metrics/aov (app/blueprints/metrics.py), the order     *)
(* endpoints (app/blueprints/orders.py), the WebSocket handler              *)
(* alerts_socket (app/blueprints/alerts.py), and the order, customer and    *)
(* rule stores they read and write.                                         *)
(*                                                                         *)
(* Conventions                                                             *)
(*   - time is counted in ticks, TicksPerSecond ticks to the second, so     *)
(*     that the truncation of _now_utc_s to whole seconds is visible;       *)
(*   - money (Numeric(12,2): total_amount, threshold) is an integer number  *)
(*     of hundredths;                                                      *)
(*   - a metric value (a Python float) is the exact rational n/d, a record  *)
(*     [n, d] with d > 0; None is the record with d = 0.  With the amounts, *)
(*     windows and order counts of this model every value is an integer or  *)
(*     a half, which a float represents exactly;                            *)
(*   - a string that is parsed is a sequence of one-character strings; the  *)
(*     payload of a pub/sub message is a sequence of byte values or of      *)
(*     code points;                                                        *)
(*   - an optional argument is NoneValue or a record with none = FALSE.     *)
(***************************************************************************)
EXTENDS Integers, Sequences, FiniteSets, TLC

VARIABLES
    rules,      \* alert_rules table: sequence of rows, row i has id i
    orders,     \* orders table: set of rows [id, merchant_id, customer_id, total_amount, created_at]
    now,        \* the clock (datetime.utcnow), in ticks
    nsched,     \* number of BackgroundSchedulers started by create_app
    pc,         \* per scheduler: "idle", "running", "returned", "failed"
    loaded,     \* per scheduler: the rows returned by the rules query of the running batch
    idx,        \* per scheduler: position of the for loop in loaded
    cache,      \* per scheduler: the local dict cache of evaluate_rules
    evaluated,  \* per scheduler: local counter
    matched,    \* per scheduler: local counter
    fnCalls,    \* per scheduler: keys for which a metric function was invoked in the batch
    pubs,       \* per scheduler: redis publish calls made in the batch
    prev,       \* per scheduler: how the previous batch ended and what it returned
    quiet,      \* per scheduler: what stayed unchanged since the previous / current batch began
    svc,        \* last call of evaluate_alerts_for_metric: arguments, rows and publish calls
    resp,       \* last call of an analytics function, helper or endpoint: arguments and result
    customers,  \* customers table: set of rows [id, merchant_id, email]
    sock        \* the /ws/alerts connection: handler position, pub/sub calls, frames sent

vars == <<rules, orders, now, nsched, pc, loaded, idx, cache, evaluated,
          matched, fnCalls, pubs, prev, quiet, svc, resp, customers, sock>>

-----------------------------------------------------------------------------
(* Bounds *)

MaxRules == 2
MaxOrders == 2
MaxClock == 11               \* last whole second the clock reaches
MaxApps == 2
MaxMerchant == 2
MaxWindowLen == 3            \* longest window string given to parse_window_str
MaxPairs == 5                \* longest list given to _score_by_quintiles
MaxScoreValue == 4           \* largest value in such a list
ReferenceDay == 40           \* day of the clock in the analytics queries
MaxItems == 2                \* longest payload of POST /orders
MaxOrderId == 3              \* largest order id asked for
MaxHeard == 3                \* most items pubsub.listen() yields to one socket

(* Program constants *)

AsciiEnd == 128              \* bytes below it are one-byte UTF-8 characters
CodeZero == 48               \* code point of the digit 0

TicksPerSecond == 2          \* resolution of the model clock below one second
SecondsPerMinute == 60       \* alerts.py:118  window_s / 60.0
EpsilonScale == 1000000000   \* alerts.py:118  1 / 1e-9
MoneyScale == 100            \* models.py:164  Numeric(12, 2)
SecondsPerDay == 86400       \* helpers.py:78  timedelta(days=num)
DaysPerWeek == 7             \* helpers.py:80  timedelta(weeks=num)
DaysPerMonth == 30           \* helpers.py:82  timedelta(days=30 * num)
DaysPerYear == 365           \* helpers.py:84  timedelta(days=365 * num)

Merchants == 1..MaxMerchant
Apps == 1..MaxApps

Metrics == {"orders_per_min", "aov_window", "unknown_metric"}
WindowChoices == {10, 20}
AmountChoices == {1200}

(* The rules a table is drawn from: one base rule and the rules that differ  *)
(* from it in exactly one column.                                           *)
BaseRule ==
    [merchant_id |-> 1, metric |-> "orders_per_min", operator |-> ">=",
     threshold |-> 600, time_window_s |-> 10, is_active |-> TRUE]

RuleChoices ==
    {[BaseRule EXCEPT !.merchant_id = m] : m \in Merchants}
    \cup {[BaseRule EXCEPT !.metric = x] : x \in Metrics}
    \cup {[BaseRule EXCEPT !.operator = x] : x \in {">", "<", "=>"}}
    \cup {[BaseRule EXCEPT !.time_window_s = w] : w \in WindowChoices}
    \cup {[BaseRule EXCEPT !.is_active = b] : b \in BOOLEAN}

RECURSIVE SeqsUpTo(_, _)
SeqsUpTo(S, n) ==
    IF n = 0 THEN {<<>>}
    ELSE LET shorter == SeqsUpTo(S, n - 1)
         IN  shorter \cup {Append(s, x) : s \in {t \in shorter : Len(t) = n - 1}, x \in S}

RuleTables == SeqsUpTo(RuleChoices, MaxRules)

-----------------------------------------------------------------------------
(* Values *)

None == [n |-> 0, d |-> 0]
(* the test "value is None" lost *)
IsNone_Never(v) == FALSE

IsNone(v) == v.d = 0

RECURSIVE SumAmount(_)
SumAmount(S) ==
    IF S = {} THEN 0
    ELSE LET o == CHOOSE x \in S : TRUE
         IN  o.total_amount + SumAmount(S \ {o})

-----------------------------------------------------------------------------
(* app/utils/helpers.py *)

RECURSIVE Decimal(_)
Decimal(k) == IF k < 10 THEN <<k>> ELSE Append(Decimal(k \div 10), k % 10)

(* one channel for every merchant *)
alerts_channel_for_merchant_Shared(merchant_id) == <<"alerts:merchant:">>

alerts_channel_for_merchant(merchant_id) ==
    <<"alerts:merchant:">> \o Decimal(merchant_id)

-----------------------------------------------------------------------------
(* app/services/alerts.py *)

_now_utc_s(t) == (t \div TicksPerSecond) * TicksPerSecond

_window_bounds_s(t, window_s) ==
    LET end == _now_utc_s(t)
    IN  [start |-> end - window_s * TicksPerSecond, end |-> end]

(* the lower bound of the window is not part of it *)
InWindow_OpenStart(os, t, merchant_id, window_s) ==
    LET b == _window_bounds_s(t, window_s)
    IN  {o \in os : /\ o.merchant_id = merchant_id
                    /\ o.created_at > b.start
                    /\ o.created_at <= b.end}

InWindow(os, t, merchant_id, window_s) ==
    LET b == _window_bounds_s(t, window_s)
    IN  {o \in os : /\ o.merchant_id = merchant_id
                    /\ o.created_at >= b.start
                    /\ o.created_at <= b.end}

_compute_orders_per_min(os, t, merchant_id, window_s) ==
    LET count == Cardinality(InWindow(os, t, merchant_id, window_s))
    IN  IF window_s >= 1
        THEN [n |-> count * SecondsPerMinute, d |-> window_s]
        ELSE [n |-> count * EpsilonScale, d |-> 1]

_compute_aov_window(os, t, merchant_id, window_s) ==
    LET rows == InWindow(os, t, merchant_id, window_s)
    IN  IF rows = {} THEN [n |-> 0, d |-> 1]
        ELSE [n |-> SumAmount(rows), d |-> Cardinality(rows) * MoneyScale]

_METRIC_FUNCS == {"orders_per_min", "aov_window"}

MetricFn(metric, os, t, merchant_id, window_s) ==
    CASE metric = "orders_per_min" -> _compute_orders_per_min(os, t, merchant_id, window_s)
      [] metric = "aov_window"     -> _compute_aov_window(os, t, merchant_id, window_s)
      [] OTHER                     -> None

(* >= read as > *)
_is_rule_triggered_Strict(rule, value) ==
    LET lhs == value.n * MoneyScale
        rhs == rule.threshold * value.d
    IN  CASE rule.operator = ">"  -> lhs > rhs
          [] rule.operator = "<"  -> lhs < rhs
          [] rule.operator = ">=" -> lhs > rhs
          [] rule.operator = "<=" -> lhs <= rhs
          [] rule.operator = "==" -> lhs = rhs
          [] rule.operator = "!=" -> lhs # rhs
          [] OTHER                -> FALSE

_is_rule_triggered(rule, value) ==
    LET lhs == value.n * MoneyScale
        rhs == rule.threshold * value.d
    IN  CASE rule.operator = ">"  -> lhs > rhs
          [] rule.operator = "<"  -> lhs < rhs
          [] rule.operator = ">=" -> lhs >= rhs
          [] rule.operator = "<=" -> lhs <= rhs
          [] rule.operator = "==" -> lhs = rhs
          [] rule.operator = "!=" -> lhs # rhs
          [] OTHER                -> FALSE

Payload(rule, value, t) ==
    [rule_id |-> rule.id, merchant_id |-> rule.merchant_id, metric |-> rule.metric,
     operator |-> rule.operator, threshold |-> rule.threshold, value |-> value,
     time_window_s |-> rule.time_window_s, triggered_at |-> t]

_publish_alert(rule, value, t, ok) ==
    [channel |-> alerts_channel_for_merchant(rule.merchant_id),
     payload |-> Payload(rule, value, t),
     ok |-> ok]

Row(rs, i) == [id |-> i] @@ rs[i]

RECURSIVE SortedInsert(_, _)
SortedInsert(s, r) ==
    IF s = <<>> THEN <<r>>
    ELSE IF Head(s).merchant_id <= r.merchant_id
         THEN <<Head(s)>> \o SortedInsert(Tail(s), r)
         ELSE <<r>> \o s

RECURSIVE OrderByMerchant(_)
OrderByMerchant(s) ==
    IF s = <<>> THEN <<>>
    ELSE SortedInsert(OrderByMerchant(SubSeq(s, 1, Len(s) - 1)), s[Len(s)])

AllRows(rs) == [i \in 1..Len(rs) |-> Row(rs, i)]

(* the is_active filter lost *)
ActiveRules_All(rs) == AllRows(rs)

ActiveRules(rs) == SelectSeq(AllRows(rs), LAMBDA r : r.is_active)

CacheKey(r) == <<r.merchant_id, r.metric, r.time_window_s>>

CallArgs(r) == <<r.merchant_id, r.metric, r.time_window_s>>

EmptyCache == [k \in {} |-> None]

(* counters kept from the previous call *)
FreshLocals_StaleCount(old) ==
    [evaluated |-> old.evaluated, matched |-> old.matched, cache |-> EmptyCache]

(* cache kept from the previous call *)
FreshLocals_StaleCache(old) == [evaluated |-> 0, matched |-> 0, cache |-> old.cache]

(* The locals of one evaluate_rules call.  old is what the variables held    *)
(* for the previous call of the same scheduler: a call starts from nothing   *)
(* of it.                                                                   *)
FreshLocals(old) == [evaluated |-> 0, matched |-> 0, cache |-> EmptyCache]

(* evaluated += 1 placed after the test for None *)
CountEvaluated_SkipNone(n, value) == IF IsNone(value) THEN n ELSE n + 1

(* evaluated += 1 comes before the test for None *)
CountEvaluated(n, value) == n + 1

(* the trigger test lost *)
Fires_Always(r, value) == ~IsNone(value)

(* if value is None: continue; if _is_rule_triggered(r, float(value)): ... *)
Fires(r, value) == ~IsNone(value) /\ _is_rule_triggered(r, value)

-----------------------------------------------------------------------------
(* Initial state: the rule store holds any rows, the order store is empty,   *)
(* the clock is at 0, and create_app has been called once with a            *)
(* configuration that starts the scheduler.                                 *)

NoBatch == [outcome |-> "none", evaluated |-> 0, matched |-> 0]
AllQuiet == [prevStore |-> TRUE, prevClock |-> TRUE, curStore |-> TRUE, curClock |-> TRUE]
NoResp == [fn |-> "none"]
NoSock == [pc |-> "none"]
NoCall == [called |-> FALSE, merchant_id |-> 0, metric |-> "", value |-> None,
           rows |-> <<>>, pubs |-> <<>>]

InitBatch ==
    /\ pc = [a \in Apps |-> "idle"]
    /\ loaded = [a \in Apps |-> <<>>]
    /\ idx = [a \in Apps |-> 1]
    /\ cache = [a \in Apps |-> EmptyCache]
    /\ evaluated = [a \in Apps |-> 0]
    /\ matched = [a \in Apps |-> 0]
    /\ fnCalls = [a \in Apps |-> <<>>]
    /\ pubs = [a \in Apps |-> <<>>]
    /\ prev = [a \in Apps |-> NoBatch]
    /\ quiet = [a \in Apps |-> AllQuiet]

Init ==
    /\ rules \in RuleTables
    /\ orders = {}
    /\ now = 0
    /\ nsched = 1
    /\ svc = NoCall
    /\ resp = NoResp
    /\ InitBatch
    /\ customers = {}
    /\ sock = NoSock

-----------------------------------------------------------------------------
(* The environment: the clock and the writers of the order store *)

Disturb(field) ==
    [a \in Apps |-> IF field = "store"
                    THEN [quiet[a] EXCEPT !.prevStore = FALSE, !.curStore = FALSE]
                    ELSE [quiet[a] EXCEPT !.prevClock = FALSE, !.curClock = FALSE]]

ClockSteps == {(w + 1) * TicksPerSecond : w \in WindowChoices}

AdvanceClock(d) ==
    /\ now + d < (MaxClock + 1) * TicksPerSecond
    /\ now' = now + d
    /\ quiet' = IF _now_utc_s(now + d) = _now_utc_s(now) THEN quiet ELSE Disturb("clock")
    /\ UNCHANGED <<rules, orders, nsched, pc, loaded, idx, cache, evaluated,
                   matched, fnCalls, pubs, prev, svc, resp, customers, sock>>

(* An order row is added and committed the way the loop body of            *)
(* bulk_create_orders adds it (an order of the merchant, created now); the *)
(* seeding command writes its rows likewise.  Every row of a merchant is   *)
(* attached to that merchant's first customer.                             *)
CustomersOf(merchant_id) == {merchant_id, merchant_id + MaxMerchant}
FirstCustomer(merchant_id) == merchant_id

NextOrderId == IF orders = {} THEN 1
               ELSE 1 + (CHOOSE i \in {o.id : o \in orders} : \A o \in orders : o.id <= i)

bulk_create_orders(merchant_id, total_amount) ==
    /\ NextOrderId <= MaxOrders
    /\ orders' = orders \cup {[id |-> NextOrderId, merchant_id |-> merchant_id,
                               customer_id |-> FirstCustomer(merchant_id),
                               total_amount |-> total_amount, created_at |-> now]}
    /\ quiet' = Disturb("store")
    /\ UNCHANGED <<rules, now, nsched, pc, loaded, idx, cache, evaluated,
                   matched, fnCalls, pubs, prev, svc, resp, customers, sock>>

-----------------------------------------------------------------------------
(* app/__init__.py: create_app and the interval job *)

Config(config_name) ==
    [ALERTS_SCHEDULER_ENABLED |-> TRUE, TESTING |-> config_name = "testing"]

ConfigNames == {"development", "testing", "production"}

(* app = Flask(__name__): a new object, on which the attribute               *)
(* _alerts_scheduler_started is not set                                     *)
NewApp == [_alerts_scheduler_started |-> FALSE]

StartsScheduler(config_name, app) ==
    /\ Config(config_name).ALERTS_SCHEDULER_ENABLED
    /\ ~Config(config_name).TESTING
    /\ ~app._alerts_scheduler_started

create_app(config_name) ==
    /\ nsched < MaxApps
    /\ nsched' = IF StartsScheduler(config_name, NewApp) THEN nsched + 1 ELSE nsched
    /\ UNCHANGED <<rules, orders, now, pc, loaded, idx, cache, evaluated,
                   matched, fnCalls, pubs, prev, quiet, svc, resp, customers, sock>>

-----------------------------------------------------------------------------
(* app/services/alerts.py: evaluate_rules, run by the job of scheduler a.    *)
(* The scheduler runs at most one instance of its job at a time.            *)

Outcome(a) == IF pc[a] = "idle" THEN NoBatch
              ELSE [outcome |-> pc[a], evaluated |-> evaluated[a], matched |-> matched[a]]

Locals(a) == [evaluated |-> evaluated[a], matched |-> matched[a], cache |-> cache[a]]

Begin(a) ==
    /\ a <= nsched
    /\ pc[a] # "running"
    /\ prev' = [prev EXCEPT ![a] = Outcome(a)]
    /\ quiet' = [quiet EXCEPT ![a] = [prevStore |-> quiet[a].curStore,
                                      prevClock |-> quiet[a].curClock,
                                      curStore |-> TRUE, curClock |-> TRUE]]
    /\ idx' = [idx EXCEPT ![a] = 1]
    /\ evaluated' = [evaluated EXCEPT ![a] = FreshLocals(Locals(a)).evaluated]
    /\ matched' = [matched EXCEPT ![a] = FreshLocals(Locals(a)).matched]
    /\ cache' = [cache EXCEPT ![a] = FreshLocals(Locals(a)).cache]
    /\ fnCalls' = [fnCalls EXCEPT ![a] = <<>>]
    /\ pubs' = [pubs EXCEPT ![a] = <<>>]
    /\ UNCHANGED <<rules, orders, now, nsched, svc, resp, customers, sock>>

StartTick(a) ==
    /\ Begin(a)
    /\ pc' = [pc EXCEPT ![a] = "running"]
    /\ loaded' = [loaded EXCEPT ![a] = OrderByMerchant(ActiveRules(rules))]

(* the rules query raises: the store is unreachable *)
StartTickFails(a) ==
    /\ Begin(a)
    /\ pc' = [pc EXCEPT ![a] = "failed"]
    /\ loaded' = [loaded EXCEPT ![a] = <<>>]

Current(a) == loaded[a][idx[a]]
InLoop(a) == a <= nsched /\ pc[a] = "running" /\ idx[a] <= Len(loaded[a])
(* the test "key not in cache" lost *)
Miss_Always(a) == TRUE

Miss(a) == CacheKey(Current(a)) \notin DOMAIN cache[a]

(* the cached value lost: the metric is queried again for every rule *)
Lookup_Recompute(a) ==
    LET r == Current(a)
        v == IF r.metric \in _METRIC_FUNCS
             THEN MetricFn(r.metric, orders, now, r.merchant_id, r.time_window_s)
             ELSE None
    IN  [k \in DOMAIN cache[a] \cup {CacheKey(r)} |->
            IF k = CacheKey(r) THEN v ELSE cache[a][k]]

Lookup(a) ==
    IF Miss(a)
    THEN LET r == Current(a)
             v == IF r.metric \in _METRIC_FUNCS
                  THEN MetricFn(r.metric, orders, now, r.merchant_id, r.time_window_s)
                  ELSE None
         IN  [k \in DOMAIN cache[a] \cup {CacheKey(r)} |->
                 IF k = CacheKey(r) THEN v ELSE cache[a][k]]
    ELSE cache[a]

(* the metric query raises: the store is unreachable *)
MetricFails(a) ==
    /\ InLoop(a)
    /\ Miss(a)
    /\ Current(a).metric \in _METRIC_FUNCS
    /\ pc' = [pc EXCEPT ![a] = "failed"]
    /\ fnCalls' = [fnCalls EXCEPT ![a] = Append(@, CallArgs(Current(a)))]
    /\ UNCHANGED <<rules, orders, now, nsched, loaded, idx, cache, evaluated,
                   matched, pubs, prev, quiet, svc, resp, customers, sock>>

(* one iteration of the for loop; ok: redis publish returns, ~ok: it raises *)
StepRule(a, ok) ==
    /\ InLoop(a)
    /\ LET r == Current(a)
           value == Lookup(a)[CacheKey(r)]
           fires == Fires(r, value)
       IN  /\ ok \/ fires
           /\ cache' = [cache EXCEPT ![a] = Lookup(a)]
           /\ fnCalls' = [fnCalls EXCEPT ![a] =
                  IF Miss(a) /\ r.metric \in _METRIC_FUNCS
                  THEN Append(@, CallArgs(r)) ELSE @]
           /\ evaluated' = [evaluated EXCEPT ![a] = CountEvaluated(@, value)]
           /\ pubs' = [pubs EXCEPT ![a] =
                  IF fires THEN Append(@, _publish_alert(r, value, now, ok)) ELSE @]
           /\ matched' = [matched EXCEPT ![a] = IF fires /\ ok THEN @ + 1 ELSE @]
           /\ idx' = [idx EXCEPT ![a] = IF fires /\ ~ok THEN @ ELSE @ + 1]
           /\ pc' = [pc EXCEPT ![a] = IF fires /\ ~ok THEN "failed" ELSE @]
    /\ UNCHANGED <<rules, orders, now, nsched, loaded, prev, quiet, svc, resp, customers, sock>>

(* the batch deletes the orders it has aggregated *)
Return_Purging(a) ==
    /\ a <= nsched
    /\ pc[a] = "running"
    /\ idx[a] > Len(loaded[a])
    /\ pc' = [pc EXCEPT ![a] = "returned"]
    /\ orders' = {}
    /\ UNCHANGED <<rules, now, nsched, loaded, idx, cache, evaluated,
                   matched, fnCalls, pubs, prev, quiet, svc, resp, customers, sock>>

Return(a) ==
    /\ a <= nsched
    /\ pc[a] = "running"
    /\ idx[a] > Len(loaded[a])
    /\ pc' = [pc EXCEPT ![a] = "returned"]
    /\ UNCHANGED <<rules, orders, now, nsched, loaded, idx, cache, evaluated,
                   matched, fnCalls, pubs, prev, quiet, svc, resp, customers, sock>>

-----------------------------------------------------------------------------
(* app/services/alerts.py: evaluate_alerts_for_metric.  failAt = k > 0: the  *)
(* k-th redis publish of the call raises; failAt = 0: none does.            *)

MetricRules(rs, merchant_id, metric) ==
    SelectSeq(AllRows(rs), LAMBDA r : /\ r.merchant_id = merchant_id
                                      /\ r.metric = metric
                                      /\ r.is_active)

ValueChoices == {[n |-> 0, d |-> 1], [n |-> 6, d |-> 1]}

evaluate_alerts_for_metric(merchant_id, metric, value, failAt) ==
    LET rows == MetricRules(rules, merchant_id, metric)
        hits == SelectSeq(rows, LAMBDA r : _is_rule_triggered(r, value))
        made == IF failAt = 0 THEN hits ELSE SubSeq(hits, 1, failAt)
    IN  /\ failAt <= Len(hits)
        /\ svc' = [called |-> TRUE, merchant_id |-> merchant_id, metric |-> metric,
                   value |-> value, rows |-> rows,
                   pubs |-> [i \in 1..Len(made) |->
                                _publish_alert(made[i], value, now, i # failAt)]]
        /\ UNCHANGED <<rules, orders, now, nsched, pc, loaded, idx, cache, evaluated,
                       matched, fnCalls, pubs, prev, quiet, resp, customers, sock>>

-----------------------------------------------------------------------------
(* app/utils/helpers.py: parse_window_str.  A string is a sequence of        *)
(* one-character strings.                                                   *)

Digits == <<"0", "1", "2", "3", "4", "5", "6", "7", "8", "9">>
IsDigit(c) == \E i \in 1..Len(Digits) : Digits[i] = c
DigitValue(c) == (CHOOSE i \in 1..Len(Digits) : Digits[i] = c) - 1
IsSpace(c) == c = " "

(* str.strip() *)
RECURSIVE Strip(_)
Strip(s) ==
    IF s = <<>> THEN s
    ELSE IF IsSpace(Head(s)) THEN Strip(Tail(s))
    ELSE IF IsSpace(s[Len(s)]) THEN Strip(SubSeq(s, 1, Len(s) - 1))
    ELSE s

(* value of a run of decimal digits *)
RECURSIVE DigitsValue(_)
DigitsValue(s) ==
    IF s = <<>> THEN 0
    ELSE DigitsValue(SubSeq(s, 1, Len(s) - 1)) * 10 + DigitValue(s[Len(s)])

(* int(text): optional white space around, an optional sign, then decimal   *)
(* digits that single underscores may separate; ValueError otherwise        *)
int(text) ==
    LET t == Strip(text)
        signed == t # <<>> /\ Head(t) \in {"+", "-"}
        body == IF signed THEN Tail(t) ELSE t
        wellFormed ==
            /\ body # <<>>
            /\ \A i \in 1..Len(body) : IsDigit(body[i]) \/ body[i] = "_"
            /\ IsDigit(body[1])
            /\ IsDigit(body[Len(body)])
            /\ \A i \in 1..(Len(body) - 1) : ~(body[i] = "_" /\ body[i + 1] = "_")
        magnitude == DigitsValue(SelectSeq(body, IsDigit))
    IN  IF ~wellFormed THEN [ok |-> FALSE, error |-> "ValueError"]
        ELSE [ok |-> TRUE,
              value |-> IF signed /\ Head(t) = "-" THEN 0 - magnitude ELSE magnitude]

(* str.lower() on one character *)
lower(c) ==
    CASE c = "D" -> "d" [] c = "W" -> "w" [] c = "M" -> "m" [] c = "Y" -> "y"
      [] OTHER -> c

(* days in one unit of a window string *)
UnitDays(unit) ==
    CASE unit = "d" -> 1
      [] unit = "w" -> DaysPerWeek
      [] unit = "m" -> DaysPerMonth
      [] unit = "y" -> DaysPerYear
      [] OTHER -> 0

(* the timedelta in days, or the ValueError raised *)
parse_window_str(window) ==
    IF Len(window) < 2 THEN [ok |-> FALSE, error |-> "ValueError"]
    ELSE LET num == int(SubSeq(window, 1, Len(window) - 1))
             unit == lower(window[Len(window)])
         IN  IF ~num.ok THEN [ok |-> FALSE, error |-> "ValueError"]
             ELSE IF UnitDays(unit) = 0 THEN [ok |-> FALSE, error |-> "ValueError"]
             ELSE [ok |-> TRUE, days |-> UnitDays(unit) * num.value]

-----------------------------------------------------------------------------
(* app/services/analytics.py: _score_by_quintiles.  pairs is a sequence of   *)
(* <<id, value>>; the result is the dict as a function on the ids.          *)

RECURSIVE sorted(_)
sorted(values) ==
    IF values = <<>> THEN <<>>
    ELSE LET rest == sorted(Tail(values))
             v == Head(values)
             below == SelectSeq(rest, LAMBDA x : x <= v)
             above == SelectSeq(rest, LAMBDA x : x > v)
         IN  below \o <<v>> \o above

Max2(a, b) == IF a >= b THEN a ELSE b
Min2(a, b) == IF a <= b THEN a ELSE b

(* ceil(x / y) for x >= 0, y > 0 *)
ceil(x, y) == (x + y - 1) \div y

(* the index is not brought back to zero-based *)
qidx_OneHigh(fifths, n) == Max2(0, Min2(n - 1, ceil(fifths * n, 5)))

(* qidx(q) for q = fifths/5: zero-based index into the sorted values *)
qidx(fifths, n) == Max2(0, Min2(n - 1, ceil(fifths * n, 5) - 1))

(* identical values are scored like any others *)
AllIdentical_Never(values) == FALSE

AllIdentical(values) == \A i \in 1..Len(values) : values[i] = values[1]

PairIds(pairs) == {pairs[i][1] : i \in 1..Len(pairs)}
(* the value a dict built from the pairs holds for cid: the last one *)
LastValue(pairs, cid) ==
    pairs[CHOOSE i \in 1..Len(pairs) :
              /\ pairs[i][1] = cid
              /\ \A j \in (i + 1)..Len(pairs) : pairs[j][1] # cid][2]

(* the scores of the two lowest buckets exchanged *)
BucketScore_Exchanged(v, t, smaller_is_better) ==
    IF smaller_is_better
    THEN (IF v <= t[1] THEN 4 ELSE IF v <= t[2] THEN 5
          ELSE IF v <= t[3] THEN 3 ELSE IF v <= t[4] THEN 2 ELSE 1)
    ELSE (IF v <= t[1] THEN 2 ELSE IF v <= t[2] THEN 1
          ELSE IF v <= t[3] THEN 3 ELSE IF v <= t[4] THEN 4 ELSE 5)

(* the score s of the value v against the thresholds t = <<t20, t40, t60, t80>> *)
BucketScore(v, t, smaller_is_better) ==
    IF smaller_is_better
    THEN (IF v <= t[1] THEN 5 ELSE IF v <= t[2] THEN 4
          ELSE IF v <= t[3] THEN 3 ELSE IF v <= t[4] THEN 2 ELSE 1)
    ELSE (IF v <= t[1] THEN 1 ELSE IF v <= t[2] THEN 2
          ELSE IF v <= t[3] THEN 3 ELSE IF v <= t[4] THEN 4 ELSE 5)

_score_by_quintiles(pairs, smaller_is_better) ==
    IF pairs = <<>> THEN [cid \in {} |-> 0]
    ELSE LET values == [i \in 1..Len(pairs) |-> pairs[i][2]]
             n == Len(values)
         IN  IF AllIdentical(values) THEN [cid \in PairIds(pairs) |-> 3]
             ELSE LET sorted_vals == sorted(values)
                      t20 == sorted_vals[qidx(1, n) + 1]
                      t40 == sorted_vals[qidx(2, n) + 1]
                      t60 == sorted_vals[qidx(3, n) + 1]
                      t80 == sorted_vals[qidx(4, n) + 1]
                  IN  [cid \in PairIds(pairs) |->
                          BucketScore(LastValue(pairs, cid), <<t20, t40, t60, t80>>,
                                      smaller_is_better)]

-----------------------------------------------------------------------------
(* app/services/analytics.py.  Dates are ticks counted from the midnight    *)
(* that begins the first month of MonthStarts.                              *)

TicksPerDay == SecondsPerDay * TicksPerSecond
Day(k) == k * TicksPerDay

(* day on which each month of the modelled half-year begins *)
MonthStarts == <<0, 31, 60, 91, 121, 152>>

(* strftime("%Y-%m") / date_trunc("month"): the month a date falls in *)
MonthOf(t) ==
    CHOOSE i \in 1..Len(MonthStarts) :
        /\ Day(MonthStarts[i]) <= t
        /\ i = Len(MonthStarts) \/ t < Day(MonthStarts[i + 1])

NoneValue == [none |-> TRUE]
SomeDate(t) == [none |-> FALSE, at |-> t]
(* the month after *)
SomeMonth_Next(i) == [none |-> FALSE, month |-> i + 1]

SomeMonth(i) == [none |-> FALSE, month |-> i]
_month_floor(d) == IF d.none THEN NoneValue ELSE SomeMonth(MonthOf(d.at))

_iso_z(t) == (t \div TicksPerSecond) * TicksPerSecond

(* the merchant filter lost *)
OfMerchant_All(os, merchant_id) == os

OfMerchant(os, merchant_id) == {o \in os : o.merchant_id = merchant_id}

(* round(x, 2) of the quotient total / count of hundredths; a quotient     *)
(* exactly between two hundredths goes where its float lies: either way    *)
round2(total, count, up) ==
    LET q == total \div count
        r == total % count
    IN  IF 2 * r < count THEN q
        ELSE IF 2 * r > count THEN q + 1
        ELSE IF up THEN q + 1 ELSE q

(* the lower bound of the window is not part of it *)
AovRows_OpenStart(os, merchant_id, start_dt, ref_now) ==
    {o \in os : /\ o.merchant_id = merchant_id
                /\ o.created_at > start_dt
                /\ o.created_at <= ref_now}

AovRows(os, merchant_id, start_dt, ref_now) ==
    {o \in os : /\ o.merchant_id = merchant_id
                /\ o.created_at >= start_dt
                /\ o.created_at <= ref_now}

rolling_aov(os, merchant_id, window, ref_now, up) ==
    LET delta == parse_window_str(window)
    IN  IF ~delta.ok THEN [ok |-> FALSE, error |-> delta.error]
        ELSE LET start_dt == ref_now - Day(delta.days)
                 rows == AovRows(os, merchant_id, start_dt, ref_now)
                 orders_count == Cardinality(rows)
             IN  [ok |-> TRUE, window |-> window,
                  from |-> _iso_z(start_dt), to |-> _iso_z(ref_now),
                  orders |-> orders_count,
                  aov |-> IF rows = {} THEN 0
                          ELSE round2(SumAmount(rows), orders_count, up)]

(* ascending sequence of a finite set of integers *)
(* largest first *)
RECURSIVE Ascending_Descending(_)
Ascending_Descending(S) ==
    IF S = {} THEN <<>>
    ELSE LET most == CHOOSE x \in S : \A y \in S : y <= x
         IN  <<most>> \o Ascending_Descending(S \ {most})

RECURSIVE Ascending(_)
Ascending(S) ==
    IF S = {} THEN <<>>
    ELSE LET least == CHOOSE x \in S : \A y \in S : x <= y
         IN  <<least>> \o Ascending(S \ {least})

LastOrderAt(rows) == CHOOSE t \in {o.created_at : o \in rows} :
                         \A o \in rows : o.created_at <= t
(* the latest order instead of the earliest *)
FirstOrderAt_Last(rows) == CHOOSE t \in {o.created_at : o \in rows} :
                               \A o \in rows : o.created_at <= t

FirstOrderAt(rows) == CHOOSE t \in {o.created_at : o \in rows} :
                          \A o \in rows : t <= o.created_at

(* distinct order amounts are counted instead of orders *)
CountOrders_Amounts(rows) == Cardinality({o.total_amount : o \in rows})

CountOrders(rows) == Cardinality(rows)

CustomerIds(rows) == {o.customer_id : o \in rows}

rfm_scores(os, merchant_id, ref_now) ==
    LET mine == OfMerchant(os, merchant_id)
        cids == Ascending(CustomerIds(mine))
        of(cid) == {o \in mine : o.customer_id = cid}
        recency_days(cid) == (ref_now - LastOrderAt(of(cid))) \div TicksPerDay
        frequency(cid) == CountOrders(of(cid))
        monetary(cid) == SumAmount(of(cid))
        recency_pairs == [i \in 1..Len(cids) |-> <<cids[i], recency_days(cids[i])>>]
        freq_pairs == [i \in 1..Len(cids) |-> <<cids[i], frequency(cids[i])>>]
        mon_pairs == [i \in 1..Len(cids) |-> <<cids[i], monetary(cids[i])>>]
        r_scores == _score_by_quintiles(recency_pairs, TRUE)
        f_scores == _score_by_quintiles(freq_pairs, FALSE)
        m_scores == _score_by_quintiles(mon_pairs, FALSE)
    IN  [i \in 1..Len(cids) |->
            LET cid == cids[i]
            IN  [customer_id |-> cid,
                 recency_days |-> recency_days(cid),
                 frequency |-> frequency(cid),
                 monetary |-> monetary(cid),
                 r |-> r_scores[cid], f |-> f_scores[cid], m |-> m_scores[cid],
                 rfm |-> <<r_scores[cid], f_scores[cid], m_scores[cid]>>]]

(* the rows of the grouped query: orders of the merchant inside the month   *)
(* bounds, each joined to the cohort month of its customer                  *)
CohortOf(os, merchant_id, cid) ==
    MonthOf(FirstOrderAt({o \in OfMerchant(os, merchant_id) : o.customer_id = cid}))

(* count(customer_id) without distinct *)
DistinctCustomers_Orders(rows) == Cardinality(rows)

(* count(distinct(Order.customer_id)) *)
DistinctCustomers(rows) == Cardinality({o.customer_id : o \in rows})

CohortOrders(os, merchant_id, start, end) ==
    {o \in OfMerchant(os, merchant_id) :
        /\ start.none \/ MonthOf(o.created_at) >= _month_floor(start).month
        /\ end.none \/ MonthOf(o.created_at) <= _month_floor(end).month}

monthly_cohorts(os, merchant_id, start, end) ==
    LET start_floor == _month_floor(start)
        end_floor == _month_floor(end)
        rows == CohortOrders(os, merchant_id, start, end)
        cohort(o) == CohortOf(os, merchant_id, o.customer_id)
        offset(o) == MonthOf(o.created_at) - cohort(o)
        active_customers(c, k) ==
            DistinctCustomers({x \in rows : cohort(x) = c /\ offset(x) = k})
        keys == Ascending({cohort(o) : o \in rows})
        max_offset == IF rows = {} THEN 0
                      ELSE CHOOSE k \in {offset(o) : o \in rows} \cup {0} :
                               \A o \in rows : offset(o) <= k
        months == {MonthOf(o.created_at) : o \in rows}
        min_seen_month == CHOOSE i \in months : \A j \in months : i <= j
        max_seen_month == CHOOSE i \in months : \A j \in months : j <= i
    IN  IF rows = {}
        THEN [start |-> start_floor, end |-> end_floor, cohorts |-> <<>>]
        ELSE [start |-> IF start.none THEN SomeMonth(min_seen_month) ELSE start_floor,
              end |-> IF end.none THEN SomeMonth(max_seen_month) ELSE end_floor,
              cohorts |-> [i \in 1..Len(keys) |->
                              [cohort |-> keys[i],
                               m |-> [k \in 0..max_offset |-> active_customers(keys[i], k)]]]]

-----------------------------------------------------------------------------
(* app/blueprints/metrics.py: GET /metrics/aov.  The body of class           *)
(* RollingAOVResource binds the name get twice: first the decorated         *)
(* get(self), then the plain get(self, args); the class attribute is the    *)
(* last binding, and the view calls it with the URL arguments only.         *)

RollingAOVResource ==
    << [name |-> "get", params |-> <<"self">>,
        decorators |-> {"arguments", "response", "jwt_required"}],
       [name |-> "get", params |-> <<"self", "args">>, decorators |-> {}] >>

Bound(cls, name) ==
    cls[CHOOSE i \in 1..Len(cls) :
            /\ cls[i].name = name
            /\ \A j \in (i + 1)..Len(cls) : cls[j].name # name]

DefaultWindow == <<"3", "0", "d">>

(* token: NoneValue, or the claims of a valid token; query: NoneValue or    *)
(* the window parameter.  An exception that leaves the view is answered     *)
(* with 500: the application registers no handler for ValueError.           *)
RollingAOVResource_get(token, query, os, t, up) ==
    LET view == Bound(RollingAOVResource, "get")
        window == IF query.none THEN DefaultWindow ELSE query.window
        result == rolling_aov(os, token.merchant_id, window, t, up)
    IN  IF "jwt_required" \in view.decorators /\ token.none
        THEN [status |-> 401, message |-> "Missing Authorization Header"]
        ELSE IF (\E i \in 1..Len(view.params) : view.params[i] = "args") # ("arguments" \in view.decorators)
        THEN [status |-> 500, message |-> "TypeError"]
        ELSE IF token.none
        THEN [status |-> 500, message |-> "RuntimeError"]
        ELSE IF token.merchant_id = 0
        THEN [status |-> 400, message |-> "Missing merchant_id in token"]
        ELSE IF ~result.ok
        THEN [status |-> 500, message |-> result.error]
        ELSE [status |-> 200, result |-> result]

-----------------------------------------------------------------------------
(* Calls of the analytics functions and helpers.  resp holds a call to be   *)
(* made, then the call with its result.                                     *)

Reply(out) == [out |-> out] @@ [resp EXCEPT !.done = TRUE]
Pending(fn) == resp.fn = fn /\ ~resp.done
StoresUntouched ==
    UNCHANGED <<rules, orders, now, nsched, pc, loaded, idx, cache, evaluated,
                matched, fnCalls, pubs, prev, quiet, svc, customers, sock>>

Apply_is_rule_triggered ==
    /\ Pending("_is_rule_triggered")
    /\ resp' = Reply(_is_rule_triggered(
                   [BaseRule EXCEPT !.operator = resp.operator,
                                    !.threshold = resp.threshold], resp.value))
    /\ StoresUntouched

Apply_parse_window_str ==
    /\ Pending("parse_window_str")
    /\ resp' = Reply(parse_window_str(resp.window))
    /\ StoresUntouched

Apply_score_by_quintiles ==
    /\ Pending("_score_by_quintiles")
    /\ resp' = Reply(_score_by_quintiles(resp.pairs, resp.smaller_is_better))
    /\ StoresUntouched

Apply_metric ==
    /\ Pending("_METRIC_FUNCS")
    /\ resp' = Reply(MetricFn(resp.metric, orders, now, resp.merchant_id, resp.window_s))
    /\ StoresUntouched

(* now = None: the reference time is the clock *)
Apply_rolling_aov(up) ==
    /\ Pending("rolling_aov")
    /\ resp' = Reply(rolling_aov(orders, resp.merchant_id, resp.window,
                                 IF resp.now.none THEN now ELSE resp.now.at, up))
    /\ StoresUntouched

Apply_rfm_scores ==
    /\ Pending("rfm_scores")
    /\ resp' = Reply(rfm_scores(orders, resp.merchant_id, now))
    /\ StoresUntouched

Apply_monthly_cohorts ==
    /\ Pending("monthly_cohorts")
    /\ resp' = Reply(monthly_cohorts(orders, resp.merchant_id, resp.start, resp.end))
    /\ StoresUntouched

Request_metrics_aov(up) ==
    /\ Pending("GET /metrics/aov")
    /\ resp' = Reply(RollingAOVResource_get(resp.token, resp.query, orders, now, up))
    /\ StoresUntouched

(* Inputs of the helpers *)
OperatorChoices == {">", ">=", "<", "<=", "==", "!=", "=>", "=", ""}
ThresholdChoices == {600, 650}
TriggerValues == {[n |-> 5, d |-> 1], [n |-> 6, d |-> 1], [n |-> 13, d |-> 2],
                  [n |-> 7, d |-> 1]}
WindowChars == {"0", "1", "3", "d", "w", "m", "y", "D", "z", "-", "+", " ", "_"}
WindowStrings == SeqsUpTo(WindowChars, MaxWindowLen)
ScoreValues == 0..MaxScoreValue
PairLists ==
    UNION {{[i \in 1..n |-> <<i, f[i]>>] : f \in [1..n -> ScoreValues]} : n \in 0..MaxPairs}

HelperCalls ==
    {[fn |-> "_is_rule_triggered", done |-> FALSE, operator |-> op, threshold |-> th,
      value |-> v] : op \in OperatorChoices, th \in ThresholdChoices, v \in TriggerValues}
    \cup {[fn |-> "parse_window_str", done |-> FALSE, window |-> w] : w \in WindowStrings}
    \cup {[fn |-> "_score_by_quintiles", done |-> FALSE, pairs |-> p,
           smaller_is_better |-> b] : p \in PairLists, b \in BOOLEAN}

(* Inputs of the queries.  Midnight is the midnight beginning day           *)
(* ReferenceDay; the reference merchant has two customers, the others one.  *)
Midnight == Day(ReferenceDay)
Second(k) == k * TicksPerSecond
MetricWindow == 10

PoolOrder(i, m, c, amt, at) ==
    [id |-> i, merchant_id |-> m, customer_id |-> c, total_amount |-> amt,
     created_at |-> at]

OrderPool ==
    {PoolOrder(1, 1, 1, 1000, Midnight + 1),
     PoolOrder(2, 1, 1, 2001, Midnight + 1 - Day(1)),
     PoolOrder(3, 1, 1 + MaxMerchant, 500, Midnight - Day(1)),
     PoolOrder(4, 1, 1 + MaxMerchant, 1000, Midnight - Second(MetricWindow)),
     PoolOrder(5, 1, 1, 700, 0),
     PoolOrder(6, 1, 1 + MaxMerchant, 1000, Midnight - Second(MetricWindow) - 1)}
    \cup {PoolOrder(5 + 2 * m, m, m, 99900, Midnight) : m \in Merchants \ {1}}
    \cup {PoolOrder(6 + 2 * m, m, m, 300, Day(MonthStarts[2]) - 1) : m \in Merchants \ {1}}

ClockChoices == {Midnight, Midnight + 1}
AnalyticsStores(t) == SUBSET {o \in OrderPool : o.created_at <= t}

AovWindows == {<<"1", "d">>, <<"1", "w">>, <<"1", "m">>, <<"1", "D">>,
               <<"-", "1", "d">>, <<"1", "z">>, <<>>}
DateChoices == {NoneValue, SomeDate(0), SomeDate(Midnight)}
Tokens == {NoneValue} \cup {[none |-> FALSE, merchant_id |-> m] : m \in Merchants}
Queries == {NoneValue} \cup {[none |-> FALSE, window |-> w] :
                                w \in {<<"1", "d">>, <<"1", "z">>}}

QueryCalls ==
    {[fn |-> "_METRIC_FUNCS", done |-> FALSE, metric |-> x, merchant_id |-> m,
      window_s |-> w] : x \in _METRIC_FUNCS, m \in Merchants, w \in {0, MetricWindow}}
    \cup {[fn |-> "rolling_aov", done |-> FALSE, merchant_id |-> m, window |-> w,
           now |-> d] : m \in Merchants, w \in AovWindows,
                        d \in {NoneValue, SomeDate(Midnight)}}
    \cup {[fn |-> "rfm_scores", done |-> FALSE, merchant_id |-> m] : m \in Merchants}
    \cup {[fn |-> "monthly_cohorts", done |-> FALSE, merchant_id |-> m, start |-> s,
           end |-> e] : m \in Merchants, s \in DateChoices, e \in DateChoices}
    \cup {[fn |-> "GET /metrics/aov", done |-> FALSE, token |-> k, query |-> q] :
             k \in Tokens, q \in Queries}

-----------------------------------------------------------------------------
(* Specifications *)

Batch ==
    \/ \E a \in Apps : StartTick(a)
    \/ \E a \in Apps : StartTickFails(a)
    \/ \E a \in Apps : MetricFails(a)
    \/ \E a \in Apps, ok \in BOOLEAN : StepRule(a, ok)
    \/ \E a \in Apps : Return(a)

(* One application: its scheduler, the clock and the writers of the order store *)
Next ==
    \/ \E d \in ClockSteps : AdvanceClock(d)
    \/ \E m \in Merchants, amt \in AmountChoices : bulk_create_orders(m, amt)
    \/ Batch

Spec == Init /\ [][Next]_vars

(* The application factory called any number of times in one process *)
InitFactory ==
    /\ rules \in RuleTables
    /\ orders = {}
    /\ now = 0
    /\ nsched = 0
    /\ svc = NoCall
    /\ resp = NoResp
    /\ InitBatch
    /\ customers = {}
    /\ sock = NoSock

NextFactory ==
    \/ \E c \in ConfigNames : create_app(c)
    \/ Batch

SpecFactory == InitFactory /\ [][NextFactory]_vars

(* The two evaluators over a store that holds any rules and orders *)
OrderStores ==
    SUBSET {[id |-> m, merchant_id |-> m, customer_id |-> FirstCustomer(m),
             total_amount |-> amt, created_at |-> 0] :
               m \in Merchants, amt \in AmountChoices}

InitService ==
    /\ rules \in RuleTables
    /\ orders \in OrderStores
    /\ now = 0
    /\ nsched = 1
    /\ svc = NoCall
    /\ resp = NoResp
    /\ InitBatch
    /\ customers = {}
    /\ sock = NoSock

NextService ==
    \/ \E m \in Merchants, x \in Metrics, v \in ValueChoices, k \in 0..MaxRules :
           evaluate_alerts_for_metric(m, x, v, k)
    \/ Batch

SpecService == InitService /\ [][NextService]_vars

(* The analytics functions, the metric functions and the helpers, each      *)
(* applied once to inputs drawn at the start                                *)
InitAnalytics ==
    /\ rules = <<>>
    /\ nsched = 0
    /\ svc = NoCall
    /\ InitBatch
    /\ customers = {}
    /\ sock = NoSock
    /\ \/ /\ now \in ClockChoices
          /\ orders \in AnalyticsStores(now)
          /\ resp \in QueryCalls
       \/ /\ now = 0
          /\ orders = {}
          /\ resp \in HelperCalls

NextAnalytics ==
    \/ Apply_is_rule_triggered
    \/ Apply_parse_window_str
    \/ Apply_score_by_quintiles
    \/ Apply_metric
    \/ \E up \in BOOLEAN : Apply_rolling_aov(up)
    \/ Apply_rfm_scores
    \/ Apply_monthly_cohorts
    \/ \E up \in BOOLEAN : Request_metrics_aov(up)

SpecAnalytics == InitAnalytics /\ [][NextAnalytics]_vars

TypeOK ==
    /\ nsched \in 0..MaxApps
    /\ now \in Nat
    /\ \A a \in Apps : pc[a] \in {"idle", "running", "returned", "failed"}

-----------------------------------------------------------------------------
(* app/blueprints/orders.py *)

Emails == {"a@x.io", "b@x.io"}
NoEmail == ""

_merchant_id_from_jwt(token) == token.merchant_id

Customer(i, m, e) == [id |-> i, merchant_id |-> m, email |-> e]

(* the next value of a table's id sequence *)
NextId(rows) ==
    IF rows = {} THEN 1
    ELSE 1 + (CHOOSE i \in {r.id : r \in rows} : \A r \in rows : r.id <= i)

(* cs: the customers the session sees, its own pending rows included *)
_get_or_create_customer(cs, merchant_id, data) ==
    LET found == {c \in cs : c.merchant_id = merchant_id /\ c.email = data.email}
        id == NextId(cs)
    IN  IF data.email = NoEmail
        THEN [raised |-> "ValueError", customers |-> cs, id |-> 0]
        ELSE IF Cardinality(found) > 1
        THEN [raised |-> "MultipleResultsFound", customers |-> cs, id |-> 0]
        ELSE IF found # {}
        THEN [raised |-> "", customers |-> cs, id |-> (CHOOSE c \in found : TRUE).id]
        ELSE [raised |-> "",
              customers |-> cs \cup {Customer(id, merchant_id, data.email)},
              id |-> id]

(* the loop of bulk_create_orders over the rest of the payload; st is the     *)
(* session: [raised, customers, orders, created]                             *)
RECURSIVE BulkItems(_, _, _, _)
BulkItems(st, merchant_id, items, t) ==
    IF items = <<>> \/ st.raised # "" THEN st
    ELSE LET got == _get_or_create_customer(st.customers, merchant_id,
                                            Head(items).customer)
             id == NextId(st.orders)
             order == [id |-> id, merchant_id |-> merchant_id,
                       customer_id |-> got.id,
                       total_amount |-> Head(items).total_amount, created_at |-> t]
         IN  IF got.raised # "" THEN [st EXCEPT !.raised = got.raised]
             ELSE BulkItems([raised |-> "", customers |-> got.customers,
                             orders |-> st.orders \cup {order},
                             created |-> Append(st.created, order)],
                            merchant_id, Tail(items), t)

(* The views as they are defined: the decorators stacked on the function and *)
(* the function's parameters.                                                *)
bulk_create_orders_view ==
    [params |-> <<>>, decorators |-> {"arguments", "response", "jwt_required"}]
retrieve_order_view ==
    [params |-> <<"order_id">>, decorators |-> {"response", "jwt_required"}]
delete_order_view ==
    [params |-> <<"order_id">>, decorators |-> {"response", "jwt_required"}]

(* The URL's converters are passed by keyword, and the arguments decorator   *)
(* passes the parsed payload as one positional argument: the call raises     *)
(* TypeError unless the function has a parameter for it.                     *)
UrlArgs == {"order_id"}
TypeError(view) ==
    (\E i \in 1..Len(view.params) : view.params[i] \notin UrlArgs)
        # ("arguments" \in view.decorators)

OrdersUntouched ==
    UNCHANGED <<rules, now, nsched, pc, loaded, idx, cache, evaluated, matched,
                fnCalls, pubs, prev, quiet, svc, sock>>

(* POST /orders *)
orders_bp_post(token, payload) ==
    LET view == bulk_create_orders_view
        call == [fn |-> "bulk_create_orders", token |-> token, payload |-> payload]
        st == BulkItems([raised |-> "", customers |-> customers, orders |-> orders,
                         created |-> <<>>],
                        _merchant_id_from_jwt(token), payload, now)
        raised == IF TypeError(view) THEN "TypeError" ELSE st.raised
    IN  /\ IF "jwt_required" \in view.decorators /\ token.none
           THEN /\ resp' = call @@ [status |-> 401, raised |-> "", created |-> <<>>]
                /\ UNCHANGED <<orders, customers>>
           ELSE IF raised # ""
           THEN /\ resp' = call @@ [status |-> 500, raised |-> raised, created |-> <<>>]
                /\ UNCHANGED <<orders, customers>>
           ELSE /\ resp' = call @@ [status |-> 201, raised |-> "", created |-> st.created]
                /\ orders' = st.orders
                /\ customers' = st.customers
        /\ OrdersUntouched

(* db.session.get(Order, order_id): the rows with this primary key *)
Get(rows, id) == {r \in rows : r.id = id}

(* the ownership test lost *)
Forbidden_Never(order, merchant_id) == FALSE

Forbidden(order, merchant_id) == order.merchant_id # merchant_id

OrderStatus(view, token, found, success) ==
    IF "jwt_required" \in view.decorators /\ token.none THEN 401
    ELSE IF TypeError(view) THEN 500
    ELSE IF found = {} THEN 404
    ELSE IF Forbidden(CHOOSE o \in found : TRUE, _merchant_id_from_jwt(token)) THEN 403
    ELSE success

(* GET /orders/<order_id> *)
retrieve_order(token, order_id) ==
    LET found == Get(orders, order_id)
    IN  /\ resp' = [fn |-> "retrieve_order", token |-> token, order_id |-> order_id,
                    status |-> OrderStatus(retrieve_order_view, token, found, 200)]
        /\ UNCHANGED <<orders, customers>>
        /\ OrdersUntouched

(* DELETE /orders/<order_id> *)
delete_order(token, order_id) ==
    LET found == Get(orders, order_id)
        status == OrderStatus(delete_order_view, token, found, 204)
    IN  /\ resp' = [fn |-> "delete_order", token |-> token, order_id |-> order_id,
                    status |-> status]
        /\ orders' = IF status = 204 THEN orders \ found ELSE orders
        /\ UNCHANGED customers
        /\ OrdersUntouched

(* Inputs of the order endpoints *)
Payloads ==
    SeqsUpTo({[customer |-> [email |-> e], total_amount |-> amt] :
                 e \in Emails \cup {NoEmail}, amt \in AmountChoices}, MaxItems)

OrderIds == 1..MaxOrderId

CustomerPool ==
    {Customer(1, 1, "a@x.io"), Customer(2, MaxMerchant, "a@x.io"),
     Customer(3, 1, "b@x.io")}

OrderRows(cs) ==
    {PoolOrder(c.id, c.merchant_id, c.id, amt, 0) : c \in cs, amt \in AmountChoices}

InitOrders ==
    /\ rules = <<>>
    /\ now = 0
    /\ nsched = 0
    /\ svc = NoCall
    /\ resp = NoResp
    /\ sock = NoSock
    /\ InitBatch
    /\ customers \in SUBSET CustomerPool
    /\ orders \in SUBSET OrderRows(customers)

NextOrders ==
    \/ \E k \in Tokens, p \in Payloads : orders_bp_post(k, p)
    \/ \E k \in Tokens, i \in OrderIds : retrieve_order(k, i)
    \/ \E k \in Tokens, i \in OrderIds : delete_order(k, i)

SpecOrders == InitOrders /\ [][NextOrders]_vars

-----------------------------------------------------------------------------
(* app/blueprints/alerts.py: alerts_socket *)

(* The token query parameter: absent, empty, not a token of this server, or  *)
(* a token with its claims.                                                  *)
NoClaims == [sub |-> 0]
SockTokens ==
    {[kind |-> "absent", claims |-> NoClaims], [kind |-> "empty", claims |-> NoClaims],
     [kind |-> "garbage", claims |-> NoClaims], [kind |-> "jwt", claims |-> [sub |-> 1]]}
    \cup {[kind |-> "jwt", claims |-> [sub |-> 1, merchant_id |-> m]] : m \in Merchants}

(* decode_token accepts what it cannot verify *)
decode_token_Lenient(token) ==
    IF token.kind = "garbage"
    THEN [raised |-> FALSE, claims |-> [sub |-> 1, merchant_id |-> 1]]
    ELSE [raised |-> token.kind # "jwt", claims |-> token.claims]

decode_token(token) == [raised |-> token.kind # "jwt", claims |-> token.claims]

(* request.args.get("token") followed by "not token" *)
Falsy(token) == token.kind \in {"absent", "empty"}

(* Values as redis hands them over: bytes (a sequence of byte values), str   *)
(* (a sequence of code points) or a number (one integer).                    *)
Bytes(v) == [py |-> "bytes", v |-> v]
Text(v) == [py |-> "str", v |-> v]
Number(v) == [py |-> "int", v |-> <<v>>]

(* bytes.decode("utf-8") on the bytes drawn here: a byte below 128 is the    *)
(* code point of that value, 0xff is found in no UTF-8 text                  *)
decode(bytes) ==
    IF \A i \in 1..Len(bytes) : bytes[i] < AsciiEnd
    THEN [raised |-> FALSE, text |-> bytes]
    ELSE [raised |-> TRUE, text |-> <<>>]

(* str(int), in code points *)
Numeral(k) == [i \in 1..Len(Decimal(k)) |-> CodeZero + Decimal(k)[i]]

RECURSIVE Joined(_)
Joined(ks) ==
    IF ks = <<>> THEN <<>>
    ELSE IF Len(ks) = 1 THEN Numeral(ks[1])
    ELSE Numeral(ks[1]) \o <<44, 32>> \o Joined(Tail(ks))

(* json.dumps of a number, and of {"raw": [...]} which is written            *)
(* {"raw": [255, 104]}                                                       *)
json_dumps(data) ==
    IF data.py = "int" THEN Numeral(data.v[1])
    ELSE <<123, 34, 114, 97, 119, 34, 58, 32, 91>> \o Joined(data.v) \o <<93, 125>>

(* lines 149-159: the text that is sent for the data of a message *)
Sendable(data) ==
    IF data.py = "bytes"
    THEN IF decode(data.v).raised THEN Text(json_dumps(data)) ELSE Text(decode(data.v).text)
    ELSE IF data.py # "str" THEN Text(json_dumps(data))
    ELSE data

(* ws.send: a str goes out as a text frame, bytes as a binary frame *)
Frame(data) == [kind |-> IF data.py = "str" THEN "text" ELSE "binary", body |-> data.v]

(* every item is forwarded, whatever its type *)
Forwarded_Any(message) == TRUE

Forwarded(message) == message.type = "message"

PubSubCall(op, channel, ok) == [op |-> op, channel |-> channel, ok |-> ok]

(* lines 165-170: unsubscribe, and close unless unsubscribe raised *)
Finally(calls, channel, ok) ==
    IF ok THEN calls \o <<PubSubCall("unsubscribe", channel, TRUE),
                          PubSubCall("close", channel, TRUE)>>
    ELSE Append(calls, PubSubCall("unsubscribe", channel, FALSE))

SockUntouched ==
    UNCHANGED <<rules, orders, now, nsched, pc, loaded, idx, cache, evaluated,
                matched, fnCalls, pubs, prev, quiet, svc, resp, customers>>

(* lines 130-144: the handshake; ok: pubsub.subscribe does not raise *)
alerts_socket_open(ok) ==
    LET token == sock.token
        decoded == decode_token(token)
        refused == \/ Falsy(token)
                   \/ decoded.raised
                   \/ "merchant_id" \notin DOMAIN decoded.claims
        channel == alerts_channel_for_merchant(decoded.claims.merchant_id)
    IN  /\ sock.pc = "handshake"
        /\ sock' = IF refused
                   THEN [sock EXCEPT !.pc = "returned", !.closed = TRUE]
                   ELSE [sock EXCEPT !.pc = IF ok THEN "listening" ELSE "raised",
                                     !.channel = channel,
                                     !.calls = <<PubSubCall("subscribe", channel, ok)>>]
        /\ SockUntouched

(* lines 147-162: one item from pubsub.listen(); sent: ws.send does not      *)
(* raise; an exception ends the loop and runs the finally block              *)
alerts_socket_item(message, sent, ok) ==
    /\ sock.pc = "listening"
    /\ Len(sock.heard) < MaxHeard
    /\ message.channel = sock.channel
    /\ sock' = IF ~Forwarded(message)
               THEN [sock EXCEPT !.heard = Append(@, message)]
               ELSE IF sent
               THEN [sock EXCEPT !.heard = Append(@, message),
                                 !.sent = Append(@, Frame(Sendable(message.data)))]
               ELSE [sock EXCEPT !.heard = Append(@, message),
                                 !.pc = "returned",
                                 !.ended = "send raised",
                                 !.calls = Finally(@, sock.channel, ok)]
    /\ SockUntouched

(* pubsub.listen() is exhausted or raises: the loop ends, the finally block  *)
(* runs                                                                      *)
alerts_socket_end(raised, ok) ==
    /\ sock.pc = "listening"
    /\ sock' = [sock EXCEPT !.pc = "returned",
                            !.ended = IF raised THEN "listen raised" ELSE "exhausted",
                            !.calls = Finally(@, sock.channel, ok)]
    /\ SockUntouched

(* Inputs of the socket *)
Payloads_Redis ==
    {Bytes(<<104, 105>>), Bytes(<<255>>), Text(<<104>>), Number(7)}

Messages(channel) ==
    {[type |-> "subscribe", channel |-> channel, data |-> Number(1)]}
    \cup {[type |-> "message", channel |-> channel, data |-> d] : d \in Payloads_Redis}

InitSocket ==
    /\ rules = <<>>
    /\ orders = {}
    /\ customers = {}
    /\ now = 0
    /\ nsched = 0
    /\ svc = NoCall
    /\ resp = NoResp
    /\ InitBatch
    /\ sock \in {[pc |-> "handshake", token |-> k, channel |-> <<>>, calls |-> <<>>,
                  heard |-> <<>>, sent |-> <<>>, closed |-> FALSE, ended |-> ""] :
                    k \in SockTokens}

NextSocket ==
    \/ \E ok \in BOOLEAN : alerts_socket_open(ok)
    \/ \E m \in Merchants :
           \E x \in Messages(alerts_channel_for_merchant(m)),
              sent \in BOOLEAN, ok \in BOOLEAN : alerts_socket_item(x, sent, ok)
    \/ \E raised \in BOOLEAN, ok \in BOOLEAN : alerts_socket_end(raised, ok)

SpecSocket == InitSocket /\ [][NextSocket]_vars

-----------------------------------------------------------------------------
(* Properties *)

Range(s) == {s[i] : i \in 1..Len(s)}

(* the last redis publish of the batch raised *)
PublishRaised(a) == pubs[a] # <<>> /\ ~pubs[a][Len(pubs[a])].ok

(* the loop iterations the batch has entered so far *)
Processed(a) == IF pc[a] = "failed" /\ PublishRaised(a) THEN idx[a] ELSE idx[a] - 1

(* C1: within one evaluate_rules call a metric function is invoked at most   *)
(* once for each (merchant_id, metric, time_window_s), however many rules     *)
(* share it, and no function is invoked for an unknown metric.               *)
C1_MetricOncePerKey ==
    \A a \in Apps :
        /\ \A i, j \in 1..Len(fnCalls[a]) : fnCalls[a][i] = fnCalls[a][j] => i = j
        /\ \A i \in 1..Len(fnCalls[a]) : fnCalls[a][i][2] \in _METRIC_FUNCS

C1_Witness ==
    \E a \in Apps :
        /\ pc[a] = "returned"
        /\ Len(loaded[a]) = 2
        /\ CallArgs(loaded[a][1]) = CallArgs(loaded[a][2])
        /\ loaded[a][1].metric \in _METRIC_FUNCS
        /\ Len(fnCalls[a]) = 1

(* C2: a publish that fails for one rule does not keep the later rules of    *)
(* the batch from being evaluated: a batch in which a publish raised ends    *)
(* only after every loaded rule has been evaluated.                          *)
C2_PublishFailureIsolated ==
    \A a \in Apps :
        (PublishRaised(a) /\ pc[a] # "running") => evaluated[a] = Len(loaded[a])

(* C3: the loop iteration of a rule with an unknown metric counts the rule   *)
(* in evaluated, publishes nothing, calls no metric function, does not end   *)
(* the batch and moves on to the next rule.                                  *)
C3_UnknownMetricSkipped ==
    [][\A a \in Apps :
          (/\ InLoop(a)
           /\ Current(a).metric \notin _METRIC_FUNCS
           /\ (idx'[a] # idx[a] \/ pc'[a] # pc[a]))
          => /\ pc'[a] = "running"
             /\ idx'[a] = idx[a] + 1
             /\ evaluated'[a] = evaluated[a] + 1
             /\ matched'[a] = matched[a]
             /\ pubs'[a] = pubs[a]
             /\ fnCalls'[a] = fnCalls[a]]_vars

C3_Witness ==
    \E a \in Apps :
        /\ pc[a] = "returned"
        /\ Len(loaded[a]) = 2
        /\ loaded[a][1].metric \notin _METRIC_FUNCS
        /\ evaluated[a] = 2
        /\ Len(pubs[a]) = 1
        /\ pubs[a][1].payload.rule_id = loaded[a][2].id

(* C4: when evaluate_rules returns, evaluated is the number of active rules  *)
(* it loaded, triggered or not, skipped or not.                              *)
C4_EvaluatedCountsAll ==
    \A a \in Apps :
        /\ pc[a] = "returned" => evaluated[a] = Len(loaded[a])
        /\ pc[a] = "running" => evaluated[a] = idx[a] - 1

C4_Witness ==
    \E a \in Apps :
        /\ pc[a] = "returned"
        /\ evaluated[a] = 2
        /\ matched[a] = 0
        /\ \E i \in 1..2 : loaded[a][i].metric \notin _METRIC_FUNCS
        /\ \E i \in 1..2 : loaded[a][i].metric \in _METRIC_FUNCS

(* C5: the publish calls of a batch are, in loop order and once each, the    *)
(* rules processed so far whose metric is known and whose comparison holds   *)
(* against the cached value, each with that value; when the batch returns    *)
(* every loaded rule has been processed and matched is the number of         *)
(* publish calls.                                                           *)
Triggered(a, r) ==
    /\ r.metric \in _METRIC_FUNCS
    /\ CacheKey(r) \in DOMAIN cache[a]
    /\ _is_rule_triggered(r, cache[a][CacheKey(r)])

C5_PublishExactlyTriggered ==
    \A a \in Apps :
        LET hits == SelectSeq(SubSeq(loaded[a], 1, Processed(a)),
                              LAMBDA r : Triggered(a, r))
        IN  /\ Len(pubs[a]) = Len(hits)
            /\ \A i \in 1..Len(hits) :
                   /\ pubs[a][i].payload.rule_id = hits[i].id
                   /\ pubs[a][i].payload.value = cache[a][CacheKey(hits[i])]
            /\ pc[a] = "returned" =>
                   /\ Processed(a) = Len(loaded[a])
                   /\ matched[a] = Len(pubs[a])

C5_Witness ==
    \E a \in Apps :
        /\ pc[a] = "returned"
        /\ Len(loaded[a]) = 2
        /\ CacheKey(loaded[a][1]) = CacheKey(loaded[a][2])
        /\ matched[a] = 1
        /\ pubs[a][1].payload.rule_id = loaded[a][2].id

(* C6: a rule that is inactive is not among the rows either evaluator works  *)
(* on: evaluate_rules neither counts nor publishes it, and                   *)
(* evaluate_alerts_for_metric never publishes it.                            *)
ActiveIds == {i \in 1..Len(rules) : rules[i].is_active}

C6_OnlyActiveRules ==
    /\ \A a \in Apps :
          /\ \A i \in 1..Len(loaded[a]) : loaded[a][i].id \in ActiveIds
          /\ evaluated[a] <= Cardinality(ActiveIds)
          /\ \A i \in 1..Len(pubs[a]) : pubs[a][i].payload.rule_id \in ActiveIds
    /\ \A i \in 1..Len(svc.rows) : svc.rows[i].id \in ActiveIds
    /\ \A i \in 1..Len(svc.pubs) : svc.pubs[i].payload.rule_id \in ActiveIds

C6_Witness ==
    \E a \in Apps, i \in 1..Len(rules) :
        /\ ~rules[i].is_active
        /\ pc[a] = "returned"
        /\ evaluated[a] = 1
        /\ Len(pubs[a]) = 1
        /\ CacheKey(rules[i]) \in DOMAIN cache[a]
        /\ _is_rule_triggered(rules[i], cache[a][CacheKey(rules[i])])
        /\ svc.called
        /\ svc.merchant_id = rules[i].merchant_id
        /\ svc.metric = rules[i].metric
        /\ _is_rule_triggered(rules[i], svc.value)
        /\ Len(svc.pubs) = 1

(* C7: two consecutive evaluate_rules runs that both return, with no order   *)
(* and no rule changed since the first began, return the same counts.        *)
C7_Idempotent ==
    \A a \in Apps :
        (/\ pc[a] = "returned"
         /\ prev[a].outcome = "returned"
         /\ quiet[a].prevStore)
        => (evaluated[a] = prev[a].evaluated /\ matched[a] = prev[a].matched)

(* C7 as amended: the same, for runs during which the clock does not move to *)
(* another second; evaluated is the same whatever the clock does.            *)
C7_IdempotentWithinSecond ==
    \A a \in Apps :
        (/\ pc[a] = "returned"
         /\ prev[a].outcome = "returned"
         /\ quiet[a].prevStore)
        => /\ evaluated[a] = prev[a].evaluated
           /\ quiet[a].prevClock => matched[a] = prev[a].matched

C7_Witness ==
    \E a \in Apps :
        /\ pc[a] = "returned"
        /\ prev[a].outcome = "returned"
        /\ quiet[a].prevStore
        /\ quiet[a].prevClock
        /\ orders # {}
        /\ matched[a] = 1
        /\ evaluated[a] = 2

(* C8: no two evaluate_rules invocations are in progress at the same time.   *)
C8_NoOverlap ==
    \A a, b \in Apps : (pc[a] = "running" /\ pc[b] = "running") => a = b

(* C9: a tick starts from nothing of the ticks before it: its cache is empty *)
(* and its counters are zero when its loop begins, every value in its cache  *)
(* was computed by a metric call of this tick, and after a tick that failed  *)
(* the scheduler can start the next one, which counts every active rule.     *)
C9_NoStateBetweenTicks ==
    \A a \in Apps :
        /\ (a <= nsched /\ pc[a] = "failed") => ENABLED StartTick(a)
        /\ (pc[a] = "running" /\ idx[a] = 1) =>
               (cache[a] = EmptyCache /\ evaluated[a] = 0 /\ matched[a] = 0)
        /\ \A k \in DOMAIN cache[a] : k[2] \in _METRIC_FUNCS => k \in Range(fnCalls[a])
        /\ (pc[a] = "returned" /\ prev[a].outcome = "failed") =>
               evaluated[a] = Cardinality(ActiveIds)

C9_Witness ==
    \E a \in Apps :
        /\ pc[a] = "returned"
        /\ prev[a].outcome = "failed"
        /\ prev[a].evaluated = 1
        /\ evaluated[a] = 2
        /\ matched[a] = 2

(* C10: every publish call for a rule goes to the channel                    *)
(* alerts:merchant:<merchant_id of the rule>, which is the channel of no     *)
(* other merchant, and its payload names that merchant.                      *)
AllPubs == UNION {Range(pubs[a]) : a \in Apps} \cup Range(svc.pubs)

C10_ChannelOfMerchantOnly ==
    \A p \in AllPubs :
        LET m == rules[p.payload.rule_id].merchant_id
        IN  /\ p.payload.merchant_id = m
            /\ p.channel = <<"alerts:merchant:">> \o Decimal(m)
            /\ \A b \in Merchants : p.channel = alerts_channel_for_merchant(b) => b = m

C10_Witness ==
    \E p, q \in AllPubs :
        /\ p.payload.merchant_id # q.payload.merchant_id
        /\ p.channel # q.channel
        /\ p \in Range(svc.pubs)
        /\ \E a \in Apps : q \in Range(pubs[a])

(* C12: a step of an evaluate_rules batch - its start, a loop iteration,    *)
(* a metric call, a publish, its return or its failure - leaves the rule    *)
(* store and the order store as they were.                                  *)
BatchStep ==
    \/ pc' # pc \/ idx' # idx \/ cache' # cache \/ fnCalls' # fnCalls
    \/ pubs' # pubs \/ evaluated' # evaluated \/ matched' # matched

C12_StoresReadOnly == [][BatchStep => (rules' = rules /\ orders' = orders)]_vars

C12_Witness ==
    /\ orders # {}
    /\ pc[1] \in {"returned", "failed"}
    /\ fnCalls[1] # <<>>
    /\ pubs[1] # <<>>
    /\ prev[1].outcome \in {"returned", "failed"}
    /\ prev[1].outcome # pc[1]

-----------------------------------------------------------------------------
(* Properties of the analytics functions and helpers *)

Done(fn) == resp.fn = fn /\ resp.done
Mine(os, merchant_id) == {o \in os : o.merchant_id = merchant_id}

(* what a call can return over the store os with the clock at t *)
Outcomes(call, os, t) ==
    CASE call.fn = "_METRIC_FUNCS" ->
            {MetricFn(call.metric, os, t, call.merchant_id, call.window_s)}
      [] call.fn = "rolling_aov" ->
            {rolling_aov(os, call.merchant_id, call.window,
                         IF call.now.none THEN t ELSE call.now.at, up) : up \in BOOLEAN}
      [] call.fn = "rfm_scores" -> {rfm_scores(os, call.merchant_id, t)}
      [] call.fn = "monthly_cohorts" ->
            {monthly_cohorts(os, call.merchant_id, call.start, call.end)}

(* the stores that hold the same orders of merchant_id as the order store   *)
TwinStores(merchant_id) ==
    {Mine(orders, merchant_id) \cup others :
        others \in SUBSET {o \in OrderPool : o.merchant_id # merchant_id}}

(* C11: the result of rolling_aov, rfm_scores, monthly_cohorts,             *)
(* orders_per_min and aov_window for a merchant is the result over any      *)
(* other store that holds the same orders of that merchant, whatever        *)
(* orders of other merchants it holds.                                      *)
C11_MerchantIsolation ==
    (resp.done /\ resp.fn \in {"_METRIC_FUNCS", "rolling_aov", "rfm_scores",
                               "monthly_cohorts"})
        => \A os \in TwinStores(resp.merchant_id) : resp.out \in Outcomes(resp, os, now)

C11_Witness ==
    /\ Done("monthly_cohorts")
    /\ resp.out.cohorts # <<>>
    /\ Mine(orders, resp.merchant_id) # {}
    /\ Mine(orders, resp.merchant_id) # orders

(* C13: for each of the six operators the trigger predicate is the          *)
(* comparison of value with threshold (at equality >=, <= and == hold and   *)
(* >, < and != do not); for any other operator string it is false.          *)
C13_TriggerIsComparison ==
    Done("_is_rule_triggered") =>
        LET v == resp.value.n * MoneyScale
            t == resp.threshold * resp.value.d
            op == resp.operator
        IN  /\ (op = ">") => (resp.out <=> v > t)
            /\ (op = ">=") => (resp.out <=> v >= t)
            /\ (op = "<") => (resp.out <=> v < t)
            /\ (op = "<=") => (resp.out <=> v <= t)
            /\ (op = "==") => (resp.out <=> v = t)
            /\ (op = "!=") => (resp.out <=> v # t)
            /\ (op \notin {">", ">=", "<", "<=", "==", "!="}) => ~resp.out
            /\ (v = t) => (resp.out <=> op \in {">=", "<=", "=="})

C13_Witness ==
    /\ Done("_is_rule_triggered")
    /\ resp.operator = ">="
    /\ resp.value.n * MoneyScale = resp.threshold * resp.value.d
    /\ resp.out

(* the metric over the given orders, as a quotient [n, d] *)
MetricOver(metric, rows, window_s) ==
    IF metric = "orders_per_min"
    THEN IF window_s >= 1
         THEN [n |-> Cardinality(rows) * SecondsPerMinute, d |-> window_s]
         ELSE [n |-> Cardinality(rows) * EpsilonScale, d |-> 1]
    ELSE IF rows = {} THEN [n |-> 0, d |-> 1]
         ELSE [n |-> SumAmount(rows), d |-> Cardinality(rows) * MoneyScale]

SameQuotient(a, b) == a.d > 0 /\ b.d > 0 /\ a.n * b.d = b.n * a.d

CreatedWithin(merchant_id, from, to) ==
    {o \in orders : /\ o.merchant_id = merchant_id
                    /\ from <= o.created_at
                    /\ o.created_at <= to}

(* C14 as stated: both metric functions aggregate the orders of the         *)
(* merchant created in [now - window_s, now], now being the time of the     *)
(* call.                                                                    *)
C14_TrailingWindow ==
    Done("_METRIC_FUNCS") =>
        SameQuotient(resp.out,
            MetricOver(resp.metric,
                       CreatedWithin(resp.merchant_id, now - Second(resp.window_s), now),
                       resp.window_s))

(* C14 amended: both metric functions aggregate exactly the orders of the   *)
(* merchant created in [now_s - window_s, now_s], both ends inclusive,      *)
(* where now_s is the time of the call truncated to the whole second;       *)
(* orders_per_min is their count over max(window_s/60, epsilon) minutes,    *)
(* never a division by zero, and aov_window their average total_amount,     *)
(* 0.0 when there are none.                                                 *)
C14_TrailingWindowOfSecond ==
    Done("_METRIC_FUNCS") =>
        LET now_s == (now \div TicksPerSecond) * TicksPerSecond
        IN  SameQuotient(resp.out,
                MetricOver(resp.metric,
                           CreatedWithin(resp.merchant_id,
                                         now_s - Second(resp.window_s), now_s),
                           resp.window_s))

C14_Witness ==
    /\ Done("_METRIC_FUNCS")
    /\ resp.metric = "orders_per_min"
    /\ now % TicksPerSecond # 0
    /\ \E o \in Mine(orders, resp.merchant_id) : o.created_at = now
    /\ \E o \in Mine(orders, resp.merchant_id) :
           o.created_at = now - 1 - Second(resp.window_s)
    /\ resp.window_s > 0
    /\ resp.out.n = SecondsPerMinute

(* the window string has the form digits, unit *)
WellFormedWindow(w) ==
    /\ Len(w) >= 2
    /\ \A i \in 1..(Len(w) - 1) : IsDigit(w[i])
    /\ w[Len(w)] \in {"d", "w", "m", "y"}

WindowDays(w) ==
    DigitsValue(SubSeq(w, 1, Len(w) - 1)) *
        (CASE w[Len(w)] = "d" -> 1
           [] w[Len(w)] = "w" -> DaysPerWeek
           [] w[Len(w)] = "m" -> DaysPerMonth
           [] w[Len(w)] = "y" -> DaysPerYear)

(* C15 as stated: rolling_aov returns as orders the number, and as aov the  *)
(* average total_amount, of the orders of the merchant created in           *)
(* [reference_time - duration(window), reference_time]; 0 and 0.0 when      *)
(* there are none.                                                          *)
AovReference == IF resp.now.none THEN now ELSE resp.now.at
C15_AovIsAverage ==
    (Done("rolling_aov") /\ resp.out.ok) =>
        LET rows == CreatedWithin(resp.merchant_id,
                                  AovReference - Day(parse_window_str(resp.window).days),
                                  AovReference)
        IN  /\ resp.out.orders = Cardinality(rows)
            /\ rows = {} => resp.out.aov = 0
            /\ rows # {} => resp.out.aov * Cardinality(rows) = SumAmount(rows)

(* C15 amended: rolling_aov returns as orders the number, and as aov the    *)
(* average total_amount rounded to two decimal places, of exactly the       *)
(* orders of the merchant created in [reference_time - duration(window),    *)
(* reference_time], both bounds inclusive; with no such order it returns    *)
(* orders = 0 and aov = 0.0.                                                *)
C15_AovIsRoundedAverage ==
    (Done("rolling_aov") /\ resp.out.ok) =>
        LET rows == CreatedWithin(resp.merchant_id,
                                  AovReference - Day(parse_window_str(resp.window).days),
                                  AovReference)
            n == Cardinality(rows)
            diff == resp.out.aov * n - SumAmount(rows)
        IN  /\ resp.out.orders = n
            /\ rows = {} => resp.out.aov = 0
            /\ rows # {} => (2 * diff <= n /\ 0 - n <= 2 * diff)

C15_Witness ==
    /\ Done("rolling_aov")
    /\ resp.out.ok
    /\ resp.out.orders = 2
    /\ resp.out.aov * 2 # SumAmount(CreatedWithin(resp.merchant_id,
                                                  AovReference - Day(1), AovReference))
    /\ \E o \in Mine(orders, resp.merchant_id) : o.created_at = AovReference - Day(1)
    /\ \E o \in Mine(orders, resp.merchant_id) : o.created_at = AovReference - Day(1) - 1
    /\ parse_window_str(resp.window).days = 1

(* C16: parse_window_str accepts exactly the strings of one or more digits  *)
(* followed by one of d, w, m, y, and returns N, 7N, 30N and 365N days;     *)
(* every other string fails with the invalid-window error.                  *)
C16_ParseAcceptsExactlyDigitsUnit ==
    Done("parse_window_str") =>
        IF WellFormedWindow(resp.window)
        THEN resp.out.ok /\ resp.out.days = WindowDays(resp.window)
        ELSE ~resp.out.ok

(* C17: a rolling-AOV request with a malformed window string is answered    *)
(* with a 4xx status and a message, never with a 5xx status or an AOV       *)
(* result.                                                                  *)
C17_MalformedWindowIs4xx ==
    (Done("GET /metrics/aov") /\ ~resp.token.none /\ ~resp.query.none
        /\ ~WellFormedWindow(resp.query.window))
        => /\ resp.out.status >= 400
           /\ resp.out.status < 500
           /\ "result" \notin DOMAIN resp.out

(* C18: rfm_scores returns one record per distinct customer with an order   *)
(* of the merchant, with frequency the number of those orders and r, f, m   *)
(* in 1..5, and the empty list when the merchant has no orders.             *)
C18_RfmOnePerCustomer ==
    Done("rfm_scores") =>
        LET mine == Mine(orders, resp.merchant_id)
            out == resp.out
        IN  /\ {out[i].customer_id : i \in 1..Len(out)} = {o.customer_id : o \in mine}
            /\ Len(out) = Cardinality({o.customer_id : o \in mine})
            /\ mine = {} => out = <<>>
            /\ \A i \in 1..Len(out) :
                   /\ out[i].frequency =
                          Cardinality({o \in mine : o.customer_id = out[i].customer_id})
                   /\ out[i].r \in 1..5
                   /\ out[i].f \in 1..5
                   /\ out[i].m \in 1..5

C18_Witness ==
    /\ Done("rfm_scores")
    /\ Len(resp.out) = 2
    /\ \E i \in 1..2 : resp.out[i].frequency = 3
    /\ \E i \in 1..2 : resp.out[i].f = 1
    /\ Mine(orders, resp.merchant_id) # orders

(* C19: when all values are identical the quantile scorer gives every id    *)
(* the score 3, in either direction; customers with identical recency,      *)
(* frequency and monetary values receive the same rfm code.                 *)
C19_IdenticalValuesScoreThree ==
    /\ (Done("_score_by_quintiles") /\ resp.pairs # <<>>
        /\ \A i \in 1..Len(resp.pairs) : resp.pairs[i][2] = resp.pairs[1][2])
           => /\ DOMAIN resp.out = {resp.pairs[i][1] : i \in 1..Len(resp.pairs)}
              /\ \A cid \in DOMAIN resp.out : resp.out[cid] = 3
    /\ Done("rfm_scores") =>
           \A i, j \in 1..Len(resp.out) :
               (/\ resp.out[i].recency_days = resp.out[j].recency_days
                /\ resp.out[i].frequency = resp.out[j].frequency
                /\ resp.out[i].monetary = resp.out[j].monetary)
                   => resp.out[i].rfm = resp.out[j].rfm

C19_Witness ==
    /\ Done("_score_by_quintiles")
    /\ Len(resp.pairs) >= 3
    /\ \A i \in 1..Len(resp.pairs) : resp.pairs[i][2] = resp.pairs[1][2]
    /\ resp.smaller_is_better
    /\ \A cid \in DOMAIN resp.out : resp.out[cid] = 3

(* nearest-rank threshold at the percentile fifths/5 of the values *)
IsAscending(s) == \A i \in 1..(Len(s) - 1) : s[i] <= s[i + 1]
CountOf(s, v) == Cardinality({i \in 1..Len(s) : s[i] = v})
Threshold(values, fifths) ==
    LET n == Len(values)
        asc == CHOOSE s \in [1..n -> {values[i] : i \in 1..n}] :
                   /\ IsAscending(s)
                   /\ \A i \in 1..n : CountOf(s, values[i]) = CountOf(values, values[i])
        rank == (fifths * n + 4) \div 5
        index == IF rank - 1 < 0 THEN 0 ELSE IF rank - 1 > n - 1 THEN n - 1 ELSE rank - 1
    IN  asc[index + 1]

(* the first of the four thresholds the value is <=, else 5 *)
Bucket(values, v) ==
    IF \E k \in 1..4 : v <= Threshold(values, k)
    THEN CHOOSE k \in 1..4 : /\ v <= Threshold(values, k)
                             /\ \A j \in 1..(k - 1) : v > Threshold(values, j)
    ELSE 5

(* C20: for values that are not all identical the quantile scorer scores    *)
(* each id by the first of the nearest-rank 20/40/60/80th percentile        *)
(* thresholds its value is <= (bucket 1..4, else 5): the bucket when larger *)
(* is better, 6 - bucket when smaller is better; the empty input gives the  *)
(* empty map.                                                               *)
C20_NearestRankBuckets ==
    Done("_score_by_quintiles") =>
        LET values == [i \in 1..Len(resp.pairs) |-> resp.pairs[i][2]]
        IN  /\ resp.pairs = <<>> => DOMAIN resp.out = {}
            /\ (\E i \in 1..Len(values) : values[i] # values[1]) =>
                   \A i \in 1..Len(resp.pairs) :
                       resp.out[resp.pairs[i][1]] =
                           IF resp.smaller_is_better
                           THEN 6 - Bucket(values, values[i])
                           ELSE Bucket(values, values[i])

C20_Witness ==
    /\ Done("_score_by_quintiles")
    /\ Len(resp.pairs) = MaxPairs
    /\ {resp.out[cid] : cid \in DOMAIN resp.out} = 1..5
    /\ resp.smaller_is_better

(* C21: for a non-empty input the quantile scorer returns scores in 1..5    *)
(* only, non-decreasing with the value when larger is better and            *)
(* non-increasing with the value when smaller is better.                    *)
C21_ScoresMonotone ==
    (Done("_score_by_quintiles") /\ resp.pairs # <<>>) =>
        /\ DOMAIN resp.out = {resp.pairs[i][1] : i \in 1..Len(resp.pairs)}
        /\ \A cid \in DOMAIN resp.out : resp.out[cid] \in 1..5
        /\ \A i, j \in 1..Len(resp.pairs) :
               resp.pairs[i][2] <= resp.pairs[j][2] =>
                   IF resp.smaller_is_better
                   THEN resp.out[resp.pairs[i][1]] >= resp.out[resp.pairs[j][1]]
                   ELSE resp.out[resp.pairs[i][1]] <= resp.out[resp.pairs[j][1]]

C21_Witness ==
    /\ Done("_score_by_quintiles")
    /\ Len(resp.pairs) = MaxPairs
    /\ ~resp.smaller_is_better
    /\ resp.pairs[1][2] < resp.pairs[2][2]
    /\ resp.out[resp.pairs[1][1]] < resp.out[resp.pairs[2][1]]
    /\ resp.pairs[3][2] = resp.pairs[2][2]
    /\ resp.out[resp.pairs[3][1]] = resp.out[resp.pairs[2][1]]

(* The cohort matrix, stated over the order store *)
CustomersOfMerchant(merchant_id) == {o.customer_id : o \in Mine(orders, merchant_id)}
FirstMonth(merchant_id, cid) ==
    CHOOSE i \in {MonthOf(o.created_at) : o \in Mine(orders, merchant_id)} :
        /\ \E o \in Mine(orders, merchant_id) :
               o.customer_id = cid /\ MonthOf(o.created_at) = i
        /\ \A o \in Mine(orders, merchant_id) :
               o.customer_id = cid => i <= MonthOf(o.created_at)
InBounds(o, start, end) ==
    /\ start.none \/ MonthOf(start.at) <= MonthOf(o.created_at)
    /\ end.none \/ MonthOf(o.created_at) <= MonthOf(end.at)
Matching(merchant_id, start, end) ==
    {o \in Mine(orders, merchant_id) : InBounds(o, start, end)}
(* customers of cohort c with a matching order in month c + k *)
ActiveIn(merchant_id, start, end, c, k) ==
    {cid \in CustomersOfMerchant(merchant_id) :
        /\ FirstMonth(merchant_id, cid) = c
        /\ \E o \in Matching(merchant_id, start, end) :
               o.customer_id = cid /\ MonthOf(o.created_at) = c + k}

RECURSIVE SumTo(_, _)
SumTo(f, k) == IF k < 0 THEN 0 ELSE f[k] + SumTo(f, k - 1)
RECURSIVE SumRows(_, _)
SumRows(rows, i) == IF i = 0 THEN 0 ELSE rows[i].m[0] + SumRows(rows, i - 1)
RECURSIVE SumCells(_, _)
SumCells(rows, i) ==
    IF i = 0 THEN 0
    ELSE SumTo(rows[i].m, Cardinality(DOMAIN rows[i].m) - 1) + SumCells(rows, i - 1)

(* C22: a customer belongs to the cohort of the month of their first order  *)
(* for the merchant, and the cell (cohort c, offset k) is the number of     *)
(* distinct customers of cohort c with at least one order, within the       *)
(* requested month bounds, in the month c + k.                              *)
C22_CohortCells ==
    Done("monthly_cohorts") =>
        LET m == resp.merchant_id
            rows == resp.out.cohorts
        IN  /\ {rows[i].cohort : i \in 1..Len(rows)} =
                   {FirstMonth(m, o.customer_id) : o \in Matching(m, resp.start, resp.end)}
            /\ \A i \in 1..Len(rows) : \A k \in DOMAIN rows[i].m :
                   rows[i].m[k] =
                       Cardinality(ActiveIn(m, resp.start, resp.end, rows[i].cohort, k))

C22_Witness ==
    /\ Done("monthly_cohorts")
    /\ resp.start.none /\ resp.end.none
    /\ Len(resp.out.cohorts) = 2
    /\ DOMAIN resp.out.cohorts[1].m = 0..1
    /\ resp.out.cohorts[1].m[0] = 1 /\ resp.out.cohorts[1].m[1] = 1
    /\ resp.out.cohorts[2].m[0] = 1 /\ resp.out.cohorts[2].m[1] = 0
    /\ Cardinality(Mine(orders, resp.merchant_id)) >= 4

(* C23: every cohort row has the keys m0 .. mMax, Max being the largest     *)
(* month offset over all rows, with 0 where no customer was active; the     *)
(* rows are in ascending order of cohort month, each month once.            *)
C23_DenseAndOrdered ==
    Done("monthly_cohorts") =>
        LET m == resp.merchant_id
            rows == resp.out.cohorts
            offsets == {MonthOf(o.created_at) - FirstMonth(m, o.customer_id) :
                           o \in Matching(m, resp.start, resp.end)} \cup {0}
            Max == CHOOSE k \in offsets : \A j \in offsets : j <= k
        IN  /\ \A i \in 1..Len(rows) : DOMAIN rows[i].m = 0..Max
            /\ \A i \in 1..Len(rows) : \A k \in 0..Max :
                   ActiveIn(m, resp.start, resp.end, rows[i].cohort, k) = {}
                       => rows[i].m[k] = 0
            /\ \A i \in 1..(Len(rows) - 1) : rows[i].cohort < rows[i + 1].cohort

C23_Witness ==
    /\ Done("monthly_cohorts")
    /\ Len(resp.out.cohorts) = 2
    /\ resp.out.cohorts[1].cohort < resp.out.cohorts[2].cohort
    /\ DOMAIN resp.out.cohorts[2].m = 0..1
    /\ resp.out.cohorts[2].m[1] = 0
    /\ resp.out.cohorts[1].m[1] = 1

(* C24: when no order matches, monthly_cohorts returns no cohorts and as    *)
(* start and end the month of each given bound, null for a bound not        *)
(* given; when orders match, a bound not given is the least (start) or      *)
(* greatest (end) month of the matching orders.                             *)
C24_Bounds ==
    Done("monthly_cohorts") =>
        LET matching == Matching(resp.merchant_id, resp.start, resp.end)
            months == {MonthOf(o.created_at) : o \in matching}
            echo(d) == IF d.none THEN NoneValue
                       ELSE [none |-> FALSE, month |-> MonthOf(d.at)]
        IN  /\ matching = {} =>
                   /\ resp.out.cohorts = <<>>
                   /\ resp.out.start = echo(resp.start)
                   /\ resp.out.end = echo(resp.end)
            /\ (matching # {} /\ resp.start.none) =>
                   /\ ~resp.out.start.none
                   /\ resp.out.start.month \in months
                   /\ \A i \in months : resp.out.start.month <= i
            /\ (matching # {} /\ resp.end.none) =>
                   /\ ~resp.out.end.none
                   /\ resp.out.end.month \in months
                   /\ \A i \in months : i <= resp.out.end.month

C24_Witness ==
    /\ Done("monthly_cohorts")
    /\ Mine(orders, resp.merchant_id) # {}
    /\ resp.out.cohorts = <<>>
    /\ ~resp.start.none
    /\ resp.end.none
    /\ resp.out.start = [none |-> FALSE, month |-> 2]
    /\ resp.out.end.none

(* C30: without bounds every month offset is >= 0 - each month in which a   *)
(* customer ordered is counted in one cell of the row of their cohort -     *)
(* and in every row m0 >= 1 and mk <= m0; the m0 of all rows add up to the  *)
(* number of distinct customers with an order for the merchant.             *)
C30_UnboundedMatrix ==
    (Done("monthly_cohorts") /\ resp.start.none /\ resp.end.none) =>
        LET m == resp.merchant_id
            rows == resp.out.cohorts
        IN  /\ \A i \in 1..Len(rows) :
                   /\ rows[i].m[0] >= 1
                   /\ \A k \in DOMAIN rows[i].m : k >= 0 /\ rows[i].m[k] <= rows[i].m[0]
            /\ SumRows(rows, Len(rows)) = Cardinality(CustomersOfMerchant(m))
            /\ SumCells(rows, Len(rows)) =
                   Cardinality({<<o.customer_id, MonthOf(o.created_at)>> :
                                   o \in Mine(orders, m)})

C30_Witness ==
    /\ Done("monthly_cohorts")
    /\ resp.start.none /\ resp.end.none
    /\ Len(resp.out.cohorts) = 1
    /\ resp.out.cohorts[1].m[0] = 2
    /\ Cardinality(Mine(orders, resp.merchant_id)) >= 3
Fired(a, r) == \E i \in 1..Len(pubs[a]) : pubs[a][i].payload.rule_id = r.id

SameKey(r, q) == CacheKey(r) = CacheKey(q)

OrderCall ==
    /\ resp' # resp
    /\ resp'.fn \in {"retrieve_order", "delete_order"}
    /\ ~resp'.token.none

(* C26: retrieving or deleting an order with the token of another merchant   *)
(* is answered 403 and an unknown order id 404, and neither changes the      *)
(* store; retrieving never changes it; a delete answered 204 removes exactly *)
(* the order asked for, which belongs to the token's merchant, and nothing   *)
(* else removes an order.                                                    *)
C26_ForeignOrderUntouched ==
    [][/\ OrderCall =>
           LET found == Get(orders, resp'.order_id)
               merchant_id == resp'.token.merchant_id
               success == IF resp'.fn = "delete_order" THEN 204 ELSE 200
           IN  /\ resp'.status = 404 <=> found = {}
               /\ resp'.status = 403 <=>
                      (found # {} /\ \A o \in found : o.merchant_id # merchant_id)
               /\ resp'.status = success <=>
                      (found # {} /\ \A o \in found : o.merchant_id = merchant_id)
               /\ resp'.status \in {403, 404} => orders' = orders
               /\ resp'.fn = "retrieve_order" => orders' = orders
               /\ resp'.status = 204 => orders' = orders \ found
               /\ customers' = customers
       /\ ~(orders \subseteq orders') =>
              /\ resp'.fn = "delete_order"
              /\ resp'.status = 204
              /\ \A o \in orders \ orders' :
                     /\ o.id = resp'.order_id
                     /\ o.merchant_id = resp'.token.merchant_id]_vars

(* a delete with another merchant's token was refused and the order is there *)
C26_Witness ==
    /\ resp.fn = "delete_order"
    /\ resp.status = 403
    /\ \E o \in orders : /\ o.id = resp.order_id
                         /\ o.merchant_id # resp.token.merchant_id

(* C27: a bulk create with a token and an email in every item is answered    *)
(* 201 and leaves, for every item, exactly one customer of the token's       *)
(* merchant with the item's email, to which the item's order is attached;    *)
(* no two customers share (merchant_id, email).                              *)
C27_BulkCreateUpserts ==
    [][(/\ resp' # resp
        /\ resp'.fn = "bulk_create_orders"
        /\ ~resp'.token.none
        /\ \A i \in 1..Len(resp'.payload) : resp'.payload[i].customer.email # NoEmail)
       => /\ resp'.status = 201
          /\ Len(resp'.created) = Len(resp'.payload)
          /\ \A i \in 1..Len(resp'.created) :
                 /\ resp'.created[i] \in orders'
                 /\ \E c \in customers' :
                        /\ c.id = resp'.created[i].customer_id
                        /\ c.merchant_id = resp'.token.merchant_id
                        /\ c.email = resp'.payload[i].customer.email
          /\ \A c, d \in customers' :
                 (c.merchant_id = d.merchant_id /\ c.email = d.email) => c = d
          /\ customers \subseteq customers']_vars
(* the handshake carries no token, or one that yields no merchant id *)
BadToken(token) == token.kind # "jwt" \/ "merchant_id" \notin DOMAIN token.claims

Handled == sock.pc \in {"listening", "returned", "raised"}

(* C25: a handshake without a token, or with a token that cannot be decoded  *)
(* to a merchant id, ends with the socket closed, no pub/sub subscription    *)
(* and nothing sent to the client.                                           *)
C25_BadTokenClosed ==
    (Handled /\ BadToken(sock.token)) =>
        /\ sock.pc = "returned"
        /\ sock.closed
        /\ sock.calls = <<>>
        /\ sock.sent = <<>>
        /\ sock.heard = <<>>

C25_Witness ==
    /\ sock.pc = "returned"
    /\ sock.token.kind = "garbage"
    /\ sock.closed

SubscribedTo == {sock.calls[i].channel : i \in {j \in 1..Len(sock.calls) :
                                                   sock.calls[j].op = "subscribe"}}

Arrived == SelectSeq(sock.heard, LAMBDA x : x.type = "message")

(* the text the client is to read for a payload *)
Shown(data) ==
    IF data.py = "str" THEN data.v
    ELSE IF data.py = "bytes" /\ \A i \in 1..Len(data.v) : data.v[i] < AsciiEnd
    THEN data.v
    ELSE json_dumps(data)

(* C28: with a valid token the handler subscribes to the channel of the      *)
(* token's merchant and to no other; the frames sent are the items of type   *)
(* "message" that arrived, once each, in arrival order, as text frames (the  *)
(* last one is missing only when sending it raised); and once the loop has   *)
(* ended, unsubscribe has been called for that channel, and not before.      *)
C28_ForwardMessages ==
    (Handled /\ ~BadToken(sock.token)) =>
        LET channel == alerts_channel_for_merchant(sock.token.claims.merchant_id)
            due == IF sock.ended = "send raised" THEN Len(Arrived) - 1 ELSE Len(Arrived)
            unsubscribed == \E i \in 2..Len(sock.calls) :
                                /\ sock.calls[i].op = "unsubscribe"
                                /\ sock.calls[i].channel = channel
        IN  /\ SubscribedTo = {channel}
            /\ sock.calls[1] = PubSubCall("subscribe", channel, sock.pc # "raised")
            /\ ~sock.closed
            /\ Len(sock.sent) = due
            /\ \A i \in 1..Len(sock.sent) :
                   /\ sock.sent[i].kind = "text"
                   /\ sock.sent[i].body = Shown(Arrived[i].data)
            /\ \A i \in 1..Len(sock.heard) : sock.heard[i].channel = channel
            /\ sock.pc = "returned" <=> unsubscribed
            /\ sock.pc = "raised" => Len(sock.calls) = 1 /\ sock.heard = <<>>

(* two messages were forwarded around an item of another type, and the loop  *)
(* then ended by an exception                                                *)
C28_Witness ==
    /\ sock.pc = "returned"
    /\ sock.ended = "listen raised"
    /\ Len(sock.heard) = 3
    /\ sock.heard[2].type = "subscribe"
    /\ Len(sock.sent) = 2
    /\ sock.heard[1].data = Bytes(<<255>>)

====
